---- MODULE Spec2Model ----
(***************************************************************************)
(* open-dydns: the daemon's REST API (package api) and its Store (package  *)
(* database).                                                              *)
(*                                                                         *)
(* Spec      the alias lifecycle: concurrent requests that already carry   *)
(*           a verified identity, interleaved at the grain of one Store    *)
(*           statement (the Store is the only shared mutable resource).    *)
(* SpecHTTP  the routes of NewAPI, one request at a time: login, the       *)
(*           bearer-token middleware in front of every alias route, and    *)
(*           the clock that expires tokens.                                *)
(* SpecFail  Spec over a Store whose statements can fail.                  *)
(* SpecCLI   the command-line client (package client, opendydns-cli): one  *)
(*           run after the other against the daemon, with its config file. *)
(***************************************************************************)
EXTENDS Integers, FiniteSets, Sequences, TLC

\* ------------------------------------------------------------------ bounds
\* Rows the aliases table ever receives (gorm primary keys 1..MaxRows).
MaxRows == 2
\* The clock runs 0..MaxTime.
MaxTime == 2
\* Consecutive failed logins that are counted (the count saturates here).
MaxFailed == 3

\* The request slots: two requests in flight at a time.
Procs == {"r1", "r2"}
\* users.id of the pre-provisioned users
UserIDs == {1, 2}
Hosts == {"home"}
Domains == {"example.com", "example.org"}
Values == {"1.2.3.4", "5.6.7.8"}

\* the bodies of POST and PUT /aliases; bound = FALSE: c.Bind fails
AliasDtos ==
  {[bound |-> TRUE, host |-> h, domain |-> d, value |-> v] :
     h \in Hosts, d \in Domains, v \in Values}
  \cup {[bound |-> FALSE, host |-> "", domain |-> "", value |-> ""]}

\* gorm.ErrRecordNotFound: what First leaves when no row matches
NoAlias == [id |-> 0, host |-> "", domain |-> "", value |-> "", userID |-> 0]

VARIABLES
  aliases,   \* the aliases table: the rows a statement can see (gorm scopes
             \* every statement to deleted_at IS NULL, so a soft-deleted row
             \* is out of the table for good)
  nextID,    \* the next primary key of the aliases table
  users,     \* the users table
  proc,      \* per request slot: where its handler stands and what it holds
  now,       \* the clock
  held,      \* the client side: the token of the last successful login
  failed,    \* consecutive failed logins so far (kept by no one: a history)
  http,      \* the last HTTP exchange: the request and what was answered
  faulty,    \* whether a statement of the Store can fail (result.Error # nil)
  cli        \* the command-line client: its process, its config file

vars == <<aliases, nextID, users, proc, now, held, failed, http, faulty, cli>>

\* what the alias operations of an authorized request never touch
gateSide == <<users, now, held, failed, http, faulty, cli>>

\* -------------------------------------------------------------- the Store
\* type Alias struct { gorm.Model; Host; Domain; Value; UserID }
Alias(id, host, domain, value, userID) ==
  [id |-> id, host |-> host, domain |-> domain, value |-> value,
   userID |-> userID]

MinID(rows) == CHOOSE a \in rows : \A b \in rows : a.id <= b.id

\* Where("host = ? AND domain = ?").First(&alias): the matching live row
\* with the smallest primary key, or ErrRecordNotFound
FindAlias(host, domain) ==
  LET m == {a \in aliases : a.host = host /\ a.domain = domain}
  IN  IF m = {} THEN NoAlias ELSE MinID(m)

\* Model(&User{ID: userID}).Association("Aliases").Find(&aliases)
\* (FindUserAliasesAll: the query without the association's user_id predicate)
FindUserAliasesAll(userID) == aliases

FindUserAliases(userID) == {a \in aliases : a.userID = userID}

\* Association("Aliases").Append(&alias): inserts the row with user_id set;
\* the table has no unique index on (host, domain)
\* (CreateAliasNoOwner: the row inserted without the association's user_id)
CreateAliasNoOwner(alias, userID) ==
  aliases \cup {Alias(nextID, alias.host, alias.domain, alias.value, 0)}

CreateAlias(alias, userID) ==
  aliases \cup {Alias(nextID, alias.host, alias.domain, alias.value, userID)}

\* Where("host = ? AND domain = ? AND user_id = ?").Delete(Alias{}):
\* (soft-)deletes every matching row; no error when none matches
\* (DeleteAliasAnyOwner: the statement without its user_id predicate)
DeleteAliasAnyOwner(host, domain, userID) ==
  {a \in aliases : ~(a.host = host /\ a.domain = domain)}

DeleteAlias(host, domain, userID) ==
  {a \in aliases : ~(a.host = host /\ a.domain = domain /\ a.userID = userID)}

\* Model(&alias).Updates(Alias{Domain, Value}): UPDATE ... WHERE id = alias.ID,
\* writing the non-zero fields only; no owner predicate and no
\* error when no row matches
\* (UpdateAliasByName: the row chosen by host and domain, not by primary key;
\* UpdateAliasEveryRow: Model(&Alias{}), the statement without its WHERE id)
UpdateAliasEveryRow(alias) ==
  {[a EXCEPT !.domain = IF alias.domain # "" THEN alias.domain ELSE @,
             !.value  = IF alias.value # "" THEN alias.value ELSE @]
     : a \in aliases}

UpdateAliasByName(alias) ==
  {IF a.host = alias.host /\ a.domain = alias.domain
     THEN [a EXCEPT !.value = IF alias.value # "" THEN alias.value ELSE @]
     ELSE a : a \in aliases}

UpdateAlias(alias) ==
  {IF a.id = alias.id
     THEN [a EXCEPT !.domain = IF alias.domain # "" THEN alias.domain ELSE @,
                    !.value  = IF alias.value # "" THEN alias.value ELSE @]
     ELSE a : a \in aliases}

\* ------------------------------------------------------- request slots
\* a slot with no request
Idle ==
  [pc |-> "idle", op |-> "", user |-> 0, host |-> "", domain |-> "",
   value |-> "", rec |-> 0, res |-> "", list |-> {}, calls |-> 0,
   stmts |-> <<>>]

\* a slot whose handler has its answer: the request it served and the outcome
Done(op, user, host, domain, res) ==
  [pc |-> "done", op |-> op, user |-> user, host |-> host, domain |-> domain,
   value |-> "", rec |-> 0, res |-> res, list |-> {}, calls |-> 0,
   stmts |-> <<>>]

\* a slot whose daemon call stands between its lookup and its write
Pending(op, user, host, domain, value, rec) ==
  [pc |-> "write", op |-> op, user |-> user, host |-> host, domain |-> domain,
   value |-> value, rec |-> rec, res |-> "", list |-> {}, calls |-> 0,
   stmts |-> <<>>]

\* the outcomes of one statement of the Store: result.Error is nil, or not
Fails == IF faulty THEN BOOLEAN ELSE {FALSE}

\* a method of the Store issues its one statement
\* (StatementTwice: the method runs its statement a second time)
StatementTwice(stmts, name) == Append(Append(stmts, name), name)

Statement(stmts, name) == Append(stmts, name)

\* the slot of a handler that has called its daemon operation, with the
\* statements the operation has issued so far
Ran(slot, stmts) == [slot EXCEPT !.calls = @ + 1, !.stmts = stmts]

\* ------------------------------------------------- users and credentials
NoUser == [id |-> 0, email |-> "", password |-> <<>>]
NoIdentity == [id |-> 0, email |-> ""]

\* the stored password hash (never the plaintext)
Hash(password) == <<"hash", password>>

\* Where("email = ?", email).First(&user)
\* (FindUserFirst: First(&user) without the Where: the first user, whatever
\* the email)
FindUserFirst(email) ==
  IF users = {} THEN NoUser
  ELSE CHOOSE u \in users : \A v \in users : u.id <= v.id

FindUser(email) ==
  IF \E u \in users : u.email = email
    THEN CHOOSE u \in users : u.email = email
    ELSE NoUser

\* Daemon.Authenticate: the user by email, then the password against its hash
Authenticate(cred) ==
  LET u == FindUser(cred.email)
  IN  IF u = NoUser \/ u.password # Hash(cred.password)
        THEN [err |-> "InvalidCredentials", identity |-> NoIdentity]
        ELSE [err |-> "", identity |-> [id |-> u.id, email |-> u.email]]

\* ------------------------------------------------------------- tokens
\* the policy constant: a token lives TokenTTL ticks
TokenTTL == 1

\* a.signingKey = []byte(conf.SigningKey), and a key that is not it
SigningKey == "key-of-the-daemon"
OtherKey == "another-key"

NoToken == [raw |-> "none", sub |-> 0, email |-> "", iat |-> 0, exp |-> 0, sig |-> <<>>]
Garbage == [raw |-> "garbage", sub |-> 0, email |-> "", iat |-> 0, exp |-> 0, sig |-> <<>>]

\* the signature: a MAC of the claims under the key
Sign(key, t) == <<key, t.sub, t.email, t.iat, t.exp>>

Signed(key, sub, email, iat, exp) ==
  LET t == [raw |-> "jwt", sub |-> sub, email |-> email, iat |-> iat,
            exp |-> exp, sig |-> <<>>]
  IN  [t EXCEPT !.sig = Sign(key, t)]

\* makeToken(userCtx, signingKey): subject, issued-at, expiry, signature
makeToken(userCtx, key) ==
  Signed(key, userCtx.id, userCtx.email, now, now + TokenTTL)

\* TokenCodec.Validate: Malformed, then InvalidSignature, then Expired
Validate(token, key) ==
  IF token.raw # "jwt" THEN [err |-> "Malformed", identity |-> NoIdentity]
  ELSE IF token.sig # Sign(key, token)
    THEN [err |-> "InvalidSignature", identity |-> NoIdentity]
  ELSE IF now > token.exp THEN [err |-> "Expired", identity |-> NoIdentity]
  ELSE [err |-> "", identity |-> [id |-> token.sub, email |-> token.email]]

\* ------------------------------------------------------- the middleware
NoHeader == [scheme |-> "", token |-> NoToken]
BasicHeader == [scheme |-> "Basic", token |-> NoToken]
Bearer(token) == [scheme |-> "Bearer", token |-> token]

\* getAuthMiddleware(signingKey): the bearer token of the Authorization
\* header, validated; every failure is answered Unauthorized
getAuthMiddleware(key, header) ==
  IF header.scheme # "Bearer"
    THEN [err |-> "Unauthorized", diag |-> "NoBearer", identity |-> NoIdentity]
    ELSE LET v == Validate(header.token, key)
         IN  IF v.err # ""
               THEN [err |-> "Unauthorized", diag |-> v.err, identity |-> NoIdentity]
               ELSE [err |-> "", diag |-> "", identity |-> v.identity]

\* makeToken(userCtx, a.signingKey) in authenticate
\* (IssueKeyOther: the token is signed with a key that is not a.signingKey)
IssueKeyOther == OtherKey

IssueKey == SigningKey

\* authMiddleware := getAuthMiddleware(a.signingKey)
\* (GateKeyOther: the middleware is built with a key that is not a.signingKey)
GateKeyOther == OtherKey

GateKey == SigningKey

authMiddleware(header) == getAuthMiddleware(GateKey, header)

Routes == {"POST /sessions", "GET /aliases", "POST /aliases", "PUT /aliases",
           "DELETE /aliases/:name", "GET /domains"}

\* the routes NewAPI registers with authMiddleware
\* (ProtectedButDelete: e.DELETE registered without it)
ProtectedButDelete ==
  {"GET /aliases", "POST /aliases", "PUT /aliases", "GET /domains"}

Protected ==
  {"GET /aliases", "POST /aliases", "PUT /aliases", "DELETE /aliases/:name",
   "GET /domains"}

\* what the route's middleware chain hands the handler: an error that ends
\* the request, or the user context (none when no middleware set one)
Gate(route, header) ==
  IF route \in Protected THEN authMiddleware(header)
  ELSE [err |-> "", diag |-> "", identity |-> NoIdentity]

NoSession == [token |-> NoToken, identity |-> NoIdentity, at |-> 0]

NoExchange ==
  [route |-> "", header |-> NoHeader,
   body |-> [bound |-> TRUE, email |-> "", password |-> "", host |-> "",
             domain |-> "", value |-> ""],
   status |-> 0, res |-> "", diag |-> "",
   user |-> NoIdentity, token |-> NoToken, prior |-> 0, calls |-> 0]

\* ------------------------------------------- the command-line client
\* config.Config: the token of the login and the address of the daemon
Config(token, addr) == [token |-> token, addr |-> addr]

\* OpenDYDNSCLI{}: the zero Config, the empty confPath
ZeroConfig == Config(NoToken, "")

\* config.DefaultConfig: no token, the address of a daemon
DefaultAddr == "http://127.0.0.1:8888"
DefaultConfig == Config(NoToken, DefaultAddr)

\* the value of --config
ConfigPath == "opendydns-cli.toml"

NoFile == [exists |-> FALSE, conf |-> ZeroConfig]

\* what the last command did: whether it was given its arguments, its error
\* ("": nil), the requests it sent, how the daemon answered its request,
\* what it logged
NoOutcome ==
  [cmd |-> "", args |-> TRUE, err |-> "", sent |-> 0, answer |-> "", msg |-> ""]

\* the command-line client before its first run: no process (NewCLI gives
\* the zero OpenDYDNSCLI), no config file
CLIStart ==
  [pc |-> "off", conf |-> ZeroConfig, confPath |-> "", file |-> NoFile,
   last |-> NoOutcome]

\* the daemon as NewAPI leaves it, over the migrated tables
Boot ==
  /\ aliases = {}
  /\ nextID = 1
  /\ users = {[id |-> 1, email |-> "a@dydns.io", password |-> Hash("pw-a")],
              [id |-> 2, email |-> "b@dydns.io", password |-> Hash("pw-b")]}
  /\ proc = [p \in Procs |-> Idle]
  /\ now = 0
  /\ held = NoSession
  /\ failed = 0
  /\ http = NoExchange
  /\ cli = CLIStart

Init == Boot /\ faulty = FALSE

\* ------------------------------------------- the daemon, one call at a time
\* the lookup of Update and Delete: NotFound when no alias matches, Forbidden
\* when the matching alias is another user's
OwnerCheck(user, host, domain) ==
  LET a == FindAlias(host, domain)
  IN  IF a = NoAlias THEN "NotFound"
      ELSE IF a.userID # user THEN "Forbidden"
      ELSE ""

\* Daemon.RegisterAlias
DaemonRegisterAlias(user, alias) ==
  IF FindAlias(alias.host, alias.domain) # NoAlias
    THEN [res |-> "Conflict", store |-> aliases]
    ELSE [res |-> "ok", store |-> CreateAlias(alias, user)]

\* Daemon.UpdateAlias
DaemonUpdateAlias(user, alias) ==
  LET c == OwnerCheck(user, alias.host, alias.domain)
      a == FindAlias(alias.host, alias.domain)
  IN  IF c # "" THEN [res |-> c, store |-> aliases]
      ELSE [res |-> "ok", store |-> UpdateAlias([a EXCEPT !.value = alias.value])]

\* Daemon.DeleteAlias
DaemonDeleteAlias(user, alias) ==
  LET c == OwnerCheck(user, alias.host, alias.domain)
  IN  IF c # "" THEN [res |-> c, store |-> aliases]
      ELSE [res |-> "ok", store |-> DeleteAlias(alias.host, alias.domain, user)]

\* Daemon.GetDomains: the domains of the caller's aliases
GetDomains(user) == {a.domain : a \in FindUserAliases(user)}

\* ------------------------------ the alias handlers, statement by statement
\* registerAlias: the user context, the body, d.RegisterAlias up to its
\* existence check (FindAlias, any owner)
registerAlias(p) ==
  /\ proc[p].pc = "idle"
  /\ \E u \in UserIDs, body \in AliasDtos, fail \in Fails :
       proc' = [proc EXCEPT ![p] =
         IF ~body.bound THEN Done("register", u, "", "", "Malformed")
         ELSE Ran(IF fail
                    THEN Done("register", u, body.host, body.domain, "Internal")
                  ELSE IF FindAlias(body.host, body.domain) # NoAlias
                    THEN Done("register", u, body.host, body.domain, "Conflict")
                  ELSE Pending("register", u, body.host, body.domain, body.value, 0),
                  Statement(<<>>, "FindAlias"))]
  /\ UNCHANGED <<aliases, nextID, gateSide>>

\* d.RegisterAlias: the insert (CreateAlias), owned by the caller
RegisterAliasCreate(p) ==
  /\ proc[p].pc = "write" /\ proc[p].op = "register"
  /\ \E fail \in Fails :
       IF fail
         THEN /\ proc' = [proc EXCEPT ![p] =
                   [Done("register", @.user, @.host, @.domain, "Internal")
                      EXCEPT !.calls = proc[p].calls,
                             !.stmts = Statement(proc[p].stmts, "CreateAlias")]]
              /\ UNCHANGED <<aliases, nextID>>
         ELSE /\ nextID <= MaxRows
              /\ aliases' = CreateAlias(proc[p], proc[p].user)
              /\ nextID' = nextID + 1
              /\ proc' = [proc EXCEPT ![p] =
                   [Done("register", @.user, @.host, @.domain, "ok")
                      EXCEPT !.calls = proc[p].calls,
                             !.stmts = Statement(proc[p].stmts, "CreateAlias")]]
  /\ UNCHANGED gateSide

\* updateAlias: the user context, the body, d.UpdateAlias up to its lookup
\* and ownership check
updateAlias(p) ==
  /\ proc[p].pc = "idle"
  /\ \E u \in UserIDs, body \in AliasDtos, fail \in Fails :
       proc' = [proc EXCEPT ![p] =
         IF ~body.bound THEN Done("update", u, "", "", "Malformed")
         ELSE Ran(IF fail
                    THEN Done("update", u, body.host, body.domain, "Internal")
                  ELSE IF OwnerCheck(u, body.host, body.domain) # ""
                    THEN Done("update", u, body.host, body.domain,
                              OwnerCheck(u, body.host, body.domain))
                  ELSE Pending("update", u, body.host, body.domain, body.value,
                               FindAlias(body.host, body.domain).id),
                  Statement(<<>>, "FindAlias"))]
  /\ UNCHANGED <<aliases, nextID, gateSide>>

\* d.UpdateAlias: the write (UpdateAlias) of the record looked up, with the
\* new value; the Store reports no error when no row matched
UpdateAliasWrite(p) ==
  /\ proc[p].pc = "write" /\ proc[p].op = "update"
  /\ \E fail \in Fails :
       /\ aliases' = IF fail THEN aliases
                     ELSE UpdateAlias([id |-> proc[p].rec, host |-> proc[p].host,
                                       domain |-> proc[p].domain,
                                       value |-> proc[p].value,
                                       userID |-> proc[p].user])
       /\ proc' = [proc EXCEPT ![p] =
            [Done("update", @.user, @.host, @.domain,
                  IF fail THEN "Internal" ELSE "ok")
               EXCEPT !.calls = proc[p].calls,
                      !.stmts = Statement(proc[p].stmts, "UpdateAlias")]]
  /\ UNCHANGED <<nextID, gateSide>>

\* deleteAlias: the user context, the name, d.DeleteAlias up to its lookup
\* and ownership check
deleteAlias(p) ==
  /\ proc[p].pc = "idle"
  /\ \E u \in UserIDs, h \in Hosts, d \in Domains, fail \in Fails :
       proc' = [proc EXCEPT ![p] =
         Ran(IF fail THEN Done("delete", u, h, d, "Internal")
             ELSE IF OwnerCheck(u, h, d) # ""
               THEN Done("delete", u, h, d, OwnerCheck(u, h, d))
             ELSE Pending("delete", u, h, d, "", 0),
             Statement(<<>>, "FindAlias"))]
  /\ UNCHANGED <<aliases, nextID, gateSide>>

\* d.DeleteAlias: the write (DeleteAlias where the owner matches); the Store
\* reports no error when no row matched. The answer keeps, in rec, the next
\* primary key at that moment: every row inserted later has an id >= rec.
DeleteAliasWrite(p) ==
  /\ proc[p].pc = "write" /\ proc[p].op = "delete"
  /\ \E fail \in Fails :
       /\ aliases' = IF fail THEN aliases
                     ELSE DeleteAlias(proc[p].host, proc[p].domain, proc[p].user)
       /\ proc' = [proc EXCEPT ![p] =
            [Done("delete", @.user, @.host, @.domain,
                  IF fail THEN "Internal" ELSE "ok")
               EXCEPT !.rec = nextID,
                      !.calls = proc[p].calls,
                      !.stmts = Statement(proc[p].stmts, "DeleteAlias")]]
  /\ UNCHANGED <<nextID, gateSide>>

\* getAliases: d.GetAliases, the caller's aliases (FindUserAliases), answered
\* as the list of the 200
getAliases(p) ==
  /\ proc[p].pc = "idle"
  /\ \E u \in UserIDs, fail \in Fails :
       proc' = [proc EXCEPT ![p] =
         Ran(IF fail THEN Done("list", u, "", "", "Internal")
             ELSE [Done("list", u, "", "", "ok")
                     EXCEPT !.list = FindUserAliases(u)],
             Statement(<<>>, "FindUserAliases"))]
  /\ UNCHANGED <<aliases, nextID, gateSide>>

\* getDomains: d.GetDomains
getDomains(p) ==
  /\ proc[p].pc = "idle"
  /\ \E u \in UserIDs, fail \in Fails :
       proc' = [proc EXCEPT ![p] =
         Ran(Done("domains", u, "", "", IF fail THEN "Internal" ELSE "ok"),
             Statement(<<>>, "FindUserAliases"))]
  /\ UNCHANGED <<aliases, nextID, gateSide>>

\* the answer is written and the slot is free again
Return(p) ==
  /\ proc[p].pc = "done"
  /\ proc' = [proc EXCEPT ![p] = Idle]
  /\ UNCHANGED <<aliases, nextID, gateSide>>

Next ==
  \E p \in Procs :
    \/ Return(p)
    \/ registerAlias(p)
    \/ RegisterAliasCreate(p)
    \/ updateAlias(p)
    \/ UpdateAliasWrite(p)
    \/ deleteAlias(p)
    \/ DeleteAliasWrite(p)
    \/ getAliases(p)
    \/ getDomains(p)

Spec == Init /\ [][Next]_vars

\* the same requests against a Store whose statements can fail
InitFaulty == Boot /\ faulty = TRUE

SpecFail == InitFaulty /\ [][Next]_vars

\* ------------------------------------------------- requests over HTTP
NoBody ==
  [bound |-> TRUE, email |-> "", password |-> "", host |-> "", domain |-> "",
   value |-> ""]

\* the bodies a client sends to POST /sessions; bound = FALSE: c.Bind fails
Credentials ==
  {[NoBody EXCEPT !.email = "a@dydns.io", !.password = "pw-a"],
   [NoBody EXCEPT !.email = "a@dydns.io", !.password = "pw-b"],
   [NoBody EXCEPT !.email = "b@dydns.io", !.password = "pw-b"],
   [NoBody EXCEPT !.email = "nobody@dydns.io", !.password = "pw-a"],
   [NoBody EXCEPT !.bound = FALSE]}

\* the bodies a client sends to POST and PUT /aliases
AliasBodies ==
  {[NoBody EXCEPT !.host = "home", !.domain = "example.com", !.value = v] :
     v \in Values}
  \cup {[NoBody EXCEPT !.bound = FALSE]}

\* DELETE /aliases/:name carries the name in the path
AliasNames == {[NoBody EXCEPT !.host = "home", !.domain = "example.com"]}

OtherUserID(id) == IF \E u \in users : u.id # id
                     THEN CHOOSE i \in {u.id : u \in users} : i # id ELSE id

\* the Authorization headers a client can send: none, another scheme, a
\* bearer token that is no token, the token it holds, that token with its
\* expiry or its subject altered, and tokens signed with another key
Headers ==
  {NoHeader, BasicHeader, Bearer(Garbage)}
  \cup (IF held = NoSession THEN {}
        ELSE {Bearer(held.token),
              Bearer([held.token EXCEPT !.exp = MaxTime + 1]),
              Bearer([held.token EXCEPT !.sub = OtherUserID(@)])})
  \cup {Bearer(Signed(OtherKey, u.id, u.email, 0, e)) :
          u \in users, e \in {0, MaxTime + 1}}

Exchange(route, header, body, status, res, diag, user, token) ==
  [route |-> route, header |-> header, body |-> body, status |-> status,
   res |-> res, diag |-> diag, user |-> user, token |-> token, prior |-> failed,
   calls |-> 0]

\* the exchange of a handler that called its daemon operation
Called(x) == [x EXCEPT !.calls = 1]

\* time passes (between two exchanges)
Tick ==
  /\ http = NoExchange
  /\ now < MaxTime
  /\ now' = now + 1
  /\ UNCHANGED <<aliases, nextID, users, faulty, cli, proc, held, failed, http>>

\* authenticate: bind the credentials, d.Authenticate, makeToken, 200
\* (authenticateLockout: the same with a lockout after three failed logins;
\* authenticateBindIgnored: the error of c.Bind is not looked at)
authenticateBindIgnored(cred) ==
  LET r == Authenticate(cred)
  IN  IF r.err # ""
        THEN [status |-> 0, res |-> r.err, token |-> NoToken,
              identity |-> NoIdentity, calls |-> 1]
        ELSE [status |-> 200, res |-> "ok",
              token |-> makeToken(r.identity, IssueKey),
              identity |-> r.identity, calls |-> 1]

authenticateLockout(cred) ==
  IF ~cred.bound
    THEN [status |-> 422, res |-> "Malformed", token |-> NoToken,
          identity |-> NoIdentity, calls |-> 0]
    ELSE LET r == Authenticate(cred)
         IN  IF r.err # "" \/ failed >= 3
               THEN [status |-> 0, res |-> "InvalidCredentials", token |-> NoToken,
                     identity |-> NoIdentity, calls |-> 1]
               ELSE [status |-> 200, res |-> "ok",
                     token |-> makeToken(r.identity, IssueKey),
                     identity |-> r.identity, calls |-> 1]

authenticate(cred) ==
  IF ~cred.bound
    THEN [status |-> 422, res |-> "Malformed", token |-> NoToken,
          identity |-> NoIdentity, calls |-> 0]
    ELSE LET r == Authenticate(cred)
         IN  IF r.err # ""
               THEN [status |-> 0, res |-> r.err, token |-> NoToken,
                     identity |-> NoIdentity, calls |-> 1]
               ELSE [status |-> 200, res |-> "ok",
                     token |-> makeToken(r.identity, IssueKey),
                     identity |-> r.identity, calls |-> 1]

\* a request the middleware chain ended: the handler is not called
Rejected(route, header, body, g) ==
  /\ http' = Exchange(route, header, body, 0, g.err, g.diag, NoIdentity, NoToken)
  /\ UNCHANGED <<aliases, nextID, users, faulty, cli, proc, now, held, failed>>

\* POST /sessions
PostSessions ==
  /\ http = NoExchange
  /\ \E cred \in Credentials :
    LET g == Gate("POST /sessions", NoHeader)
        r == authenticate(cred)
    IN  IF g.err # "" THEN Rejected("POST /sessions", NoHeader, cred, g)
        ELSE
          /\ http' = [Exchange("POST /sessions", NoHeader, cred, r.status,
                               r.res, "", NoIdentity, r.token)
                        EXCEPT !.calls = r.calls]
          /\ held' = IF r.token # NoToken
                       THEN [token |-> r.token, identity |-> r.identity, at |-> now]
                       ELSE held
          /\ failed' = IF r.res = "ok" THEN 0
                       ELSE IF r.res = "Malformed" THEN failed
                       ELSE IF failed < MaxFailed THEN failed + 1 ELSE failed
          /\ UNCHANGED <<aliases, nextID, users, faulty, cli, proc, now>>

\* GET /aliases: getAliases, d.GetAliases
GetAliasesRoute ==
  /\ http = NoExchange
  /\ \E header \in Headers :
    LET g == Gate("GET /aliases", header)
    IN  IF g.err # "" THEN Rejected("GET /aliases", header, NoBody, g)
        ELSE
          /\ http' = Called(Exchange("GET /aliases", header, NoBody, 200, "ok",
                                     "", g.identity, NoToken))
          /\ UNCHANGED <<aliases, nextID, users, faulty, cli, proc, now, held, failed>>

\* GET /domains: getDomains, d.GetDomains
GetDomainsRoute ==
  /\ http = NoExchange
  /\ \E header \in Headers :
    LET g == Gate("GET /domains", header)
    IN  IF g.err # "" THEN Rejected("GET /domains", header, NoBody, g)
        ELSE
          /\ http' = Called(Exchange("GET /domains", header, NoBody, 200, "ok",
                                     "", g.identity, NoToken))
          /\ UNCHANGED <<aliases, nextID, users, faulty, cli, proc, now, held, failed>>

\* POST /aliases: registerAlias, d.RegisterAlias, 201
PostAliases ==
  /\ http = NoExchange
  /\ \E header \in Headers, body \in AliasBodies :
    LET g == Gate("POST /aliases", header)
        r == DaemonRegisterAlias(g.identity.id, body)
    IN  IF g.err # "" THEN Rejected("POST /aliases", header, body, g)
        ELSE IF ~body.bound
          THEN /\ http' = Exchange("POST /aliases", header, body, 422,
                                   "Malformed", "", g.identity, NoToken)
               /\ UNCHANGED <<aliases, nextID, users, faulty, cli, proc, now, held, failed>>
        ELSE
          /\ r.res = "ok" => nextID <= MaxRows
          /\ aliases' = r.store
          /\ nextID' = IF r.res = "ok" THEN nextID + 1 ELSE nextID
          /\ http' = Called(Exchange("POST /aliases", header, body,
                                     IF r.res = "ok" THEN 201 ELSE 0, r.res, "",
                                     g.identity, NoToken))
          /\ UNCHANGED <<users, faulty, cli, proc, now, held, failed>>

\* PUT /aliases: updateAlias, d.UpdateAlias, 200
PutAliases ==
  /\ http = NoExchange
  /\ \E header \in Headers, body \in AliasBodies :
    LET g == Gate("PUT /aliases", header)
        r == DaemonUpdateAlias(g.identity.id, body)
    IN  IF g.err # "" THEN Rejected("PUT /aliases", header, body, g)
        ELSE IF ~body.bound
          THEN /\ http' = Exchange("PUT /aliases", header, body, 422,
                                   "Malformed", "", g.identity, NoToken)
               /\ UNCHANGED <<aliases, nextID, users, faulty, cli, proc, now, held, failed>>
        ELSE
          /\ aliases' = r.store
          /\ http' = Called(Exchange("PUT /aliases", header, body,
                                     IF r.res = "ok" THEN 200 ELSE 0, r.res, "",
                                     g.identity, NoToken))
          /\ UNCHANGED <<nextID, users, faulty, cli, proc, now, held, failed>>

\* DELETE /aliases/:name: deleteAlias, d.DeleteAlias, 200
DeleteAliasesName ==
  /\ http = NoExchange
  /\ \E header \in Headers, body \in AliasNames :
    LET g == Gate("DELETE /aliases/:name", header)
        r == DaemonDeleteAlias(g.identity.id, body)
    IN  IF g.err # "" THEN Rejected("DELETE /aliases/:name", header, body, g)
        ELSE
          /\ aliases' = r.store
          /\ http' = Called(Exchange("DELETE /aliases/:name", header, body,
                                     IF r.res = "ok" THEN 200 ELSE 0, r.res, "",
                                     g.identity, NoToken))
          /\ UNCHANGED <<nextID, users, faulty, cli, proc, now, held, failed>>

\* the answer is written: the exchange is over
Close ==
  /\ http # NoExchange
  /\ http' = NoExchange
  /\ UNCHANGED <<aliases, nextID, users, faulty, cli, proc, now, held, failed>>

NextHTTP ==
  \/ Tick
  \/ Close
  \/ PostSessions
  \/ GetAliasesRoute
  \/ GetDomainsRoute
  \/ PostAliases
  \/ PutAliases
  \/ DeleteAliasesName

SpecHTTP == Init /\ [][NextHTTP]_vars

\* ------------------------------------- the client library and the CLI
\* what comes back for a request: nothing (the request failed in transport),
\* a result body, or an error body {message}
NoResponse ==
  [kind |-> "none", token |-> NoToken, message |-> "", store |-> aliases,
   inserted |-> FALSE]

\* POST /sessions as the daemon answers it
ServeSessions(cred) ==
  LET r == authenticate(cred)
  IN  IF r.res = "ok"
        THEN [kind |-> "result", token |-> r.token, message |-> "",
              store |-> aliases, inserted |-> FALSE]
        ELSE [kind |-> "error", token |-> NoToken, message |-> r.res,
              store |-> aliases, inserted |-> FALSE]

\* an alias route as the daemon answers it: the middleware, then the handler
ServeAlias(route, token, body) ==
  LET g == Gate(route, Bearer(token))
      r == IF route = "POST /aliases" THEN DaemonRegisterAlias(g.identity.id, body)
           ELSE IF route = "PUT /aliases" THEN DaemonUpdateAlias(g.identity.id, body)
           ELSE IF route = "DELETE /aliases/:name"
             THEN DaemonDeleteAlias(g.identity.id, body)
           ELSE [res |-> "ok", store |-> aliases]
  IN  IF g.err # ""
        THEN [kind |-> "error", token |-> NoToken, message |-> g.err,
              store |-> aliases, inserted |-> FALSE]
      ELSE IF r.res # "ok"
        THEN [kind |-> "error", token |-> NoToken, message |-> r.res,
              store |-> aliases, inserted |-> FALSE]
      ELSE [kind |-> "result", token |-> NoToken, message |-> "",
            store |-> r.store, inserted |-> route = "POST /aliases"]

\* var err proto.ErrorDto
ZeroError == [message |-> ""]

\* SetError(&err): resty fills err from an error body
SetError(resp) ==
  IF resp.kind = "error" THEN [message |-> resp.message] ELSE ZeroError

\* nonNilError: nil ("") when the message is empty
nonNilError(err) == IF err.message = "" THEN "" ELSE err.message

\* Client.Authenticate: SetResult(&result).SetError(&err).Post("/sessions");
\* the error of Post itself is dropped
ClientAuthenticate(resp) ==
  [result |-> IF resp.kind = "result" THEN resp.token ELSE NoToken,
   err |-> nonNilError(SetError(resp))]

\* Client.GetAliases
ClientGetAliases(resp) == nonNilError(SetError(resp))

\* Client.RegisterAlias
ClientRegisterAlias(resp) == nonNilError(SetError(resp))

\* Client.UpdateAlias
ClientUpdateAlias(resp) == nonNilError(SetError(resp))

\* Client.DeleteAlias: the request has no SetError, err stays the zero
\* ErrorDto; the error of Delete itself is dropped
ClientDeleteAlias(resp) == nonNilError(ZeroError)

\* whether a request of the client gets to the daemon: it needs the address
\* of NewClient(odc.conf.APIAddr), and the transport
Reaches(transport) == cli.conf.addr # "" /\ transport

Outcome(cmd, args, err, sent, answer, msg) ==
  [cmd |-> cmd, args |-> args, err |-> err, sent |-> sent, answer |-> answer,
   msg |-> msg]

\* how the daemon answered: "none", "ok" or the message of the error body
AnswerOf(resp) ==
  IF resp.kind = "none" THEN "none"
  ELSE IF resp.kind = "result" THEN "ok" ELSE resp.message

\* getToken: "not logged in" when conf.Token is empty
\* (getTokenUnchecked: the token handed out without the check)
getTokenUnchecked == [token |-> cli.conf.token, err |-> ""]

getToken ==
  IF cli.conf.token = NoToken
    THEN [token |-> NoToken, err |-> "not logged in"]
    ELSE [token |-> cli.conf.token, err |-> ""]

\* config.Save(conf, path): the file at path gets conf, unless the path is
\* empty or the write fails (io = FALSE)
Save(conf, path, io) ==
  IF path = ConfigPath /\ io
    THEN [err |-> "", file |-> [exists |-> TRUE, conf |-> conf]]
    ELSE [err |-> "save", file |-> cli.file]

\* saveConfig: odc.conf = conf; config.Save(odc.conf, odc.confPath)
saveConfig(conf, io) == Save(conf, cli.confPath, io)

\* a run of opendydns-cli starts: NewCLI, then the before hook
before ==
  /\ cli.pc = "off"
  /\ \E logOK \in BOOLEAN, io \in BOOLEAN :
       cli' =
         IF ~logOK
           THEN [cli EXCEPT !.conf = ZeroConfig, !.confPath = "",
                            !.last = Outcome("before", TRUE, "log", 0, "", "")]
         ELSE IF ~cli.file.exists
           THEN LET saved == Save(DefaultConfig, ConfigPath, io)
                IN  IF saved.err # ""
                      THEN [cli EXCEPT !.conf = ZeroConfig, !.confPath = "",
                              !.last = Outcome("before", TRUE, saved.err, 0, "", "")]
                      ELSE [cli EXCEPT !.pc = "ready", !.conf = ZeroConfig,
                              !.confPath = "", !.file = saved.file,
                              !.last = Outcome("before", TRUE, "", 0, "", "created")]
         ELSE [cli EXCEPT !.pc = "ready", !.conf = cli.file.conf,
                          !.confPath = ConfigPath,
                          !.last = Outcome("before", TRUE, "", 0, "", "")]
  /\ UNCHANGED <<aliases, nextID, users, proc, now, held, failed, http, faulty>>

\* the logins a user types
CLICredentials ==
  {[NoBody EXCEPT !.email = "a@dydns.io", !.password = "pw-a"],
   [NoBody EXCEPT !.email = "a@dydns.io", !.password = "pw-b"],
   [NoBody EXCEPT !.email = "b@dydns.io", !.password = "pw-b"]}

\* opendydns-cli login <EMAIL>
login ==
  /\ cli.pc = "ready"
  /\ \E args \in BOOLEAN, cred \in CLICredentials, transport \in BOOLEAN,
        io \in BOOLEAN :
       LET resp == IF Reaches(transport) THEN ServeSessions(cred) ELSE NoResponse
           a == ClientAuthenticate(resp)
           conf == [cli.conf EXCEPT !.token = a.result]
           saved == saveConfig(conf, io)
       IN  cli' =
             IF ~args
               THEN [cli EXCEPT !.pc = "off",
                                !.last = Outcome("login", args, "missing EMAIL", 0, "", "")]
             ELSE IF cli.conf.token # NoToken
               THEN [cli EXCEPT !.pc = "off",
                                !.last = Outcome("login", args, "already logged in", 0, "", "")]
             ELSE IF a.err # ""
               THEN [cli EXCEPT !.pc = "off",
                                !.last = Outcome("login", args, a.err, 1, AnswerOf(resp), "")]
             ELSE IF saved.err # ""
               THEN [cli EXCEPT !.pc = "off", !.conf = conf,
                                !.last = Outcome("login", args, saved.err, 1,
                                                 AnswerOf(resp), "")]
             ELSE [cli EXCEPT !.pc = "off", !.conf = conf, !.file = saved.file,
                              !.last = Outcome("login", args, "", 1, AnswerOf(resp),
                                               "successfully authenticated.")]
  /\ UNCHANGED <<aliases, nextID, users, proc, now, held, failed, http, faulty>>

\* opendydns-cli ls
ls ==
  /\ cli.pc = "ready"
  /\ \E transport \in BOOLEAN :
       LET t == getToken
           resp == IF Reaches(transport)
                     THEN ServeAlias("GET /aliases", t.token, NoBody)
                     ELSE NoResponse
       IN  cli' =
             IF t.err # ""
               THEN [cli EXCEPT !.pc = "off", !.last = Outcome("ls", TRUE, t.err, 0, "", "")]
             ELSE [cli EXCEPT !.pc = "off",
                              !.last = Outcome("ls", TRUE, ClientGetAliases(resp), 1,
                                               AnswerOf(resp), "")]
  /\ UNCHANGED <<aliases, nextID, users, proc, now, held, failed, http, faulty>>

\* getRemoteIp
RemoteIp == "127.0.0.1"

\* opendydns-cli add <ALIAS>
add ==
  /\ cli.pc = "ready"
  /\ \E args \in BOOLEAN, name \in AliasNames, transport \in BOOLEAN :
       LET t == getToken
           resp == IF Reaches(transport)
                     THEN ServeAlias("POST /aliases", t.token,
                                     [name EXCEPT !.value = RemoteIp])
                     ELSE NoResponse
           e == ClientRegisterAlias(resp)
       IN  IF ~args \/ t.err # ""
             THEN /\ cli' = [cli EXCEPT !.pc = "off",
                               !.last = Outcome("add", args, IF ~args THEN "missing ALIAS"
                                                       ELSE t.err, 0, "", "")]
                  /\ UNCHANGED <<aliases, nextID>>
             ELSE /\ resp.inserted => nextID <= MaxRows
                  /\ aliases' = resp.store
                  /\ nextID' = IF resp.inserted THEN nextID + 1 ELSE nextID
                  /\ cli' = [cli EXCEPT !.pc = "off",
                               !.last = Outcome("add", args, e, 1, AnswerOf(resp),
                                          IF e = "" THEN "successfully created alias."
                                          ELSE "")]
  /\ UNCHANGED <<users, proc, now, held, failed, http, faulty>>

\* opendydns-cli rm <ALIAS>
rm ==
  /\ cli.pc = "ready"
  /\ \E args \in BOOLEAN, name \in AliasNames, transport \in BOOLEAN :
       LET t == getToken
           resp == IF Reaches(transport)
                     THEN ServeAlias("DELETE /aliases/:name", t.token, name)
                     ELSE NoResponse
           e == ClientDeleteAlias(resp)
       IN  IF ~args \/ t.err # ""
             THEN /\ cli' = [cli EXCEPT !.pc = "off",
                               !.last = Outcome("rm", args, IF ~args THEN "missing ALIAS"
                                                      ELSE t.err, 0, "", "")]
                  /\ UNCHANGED aliases
             ELSE /\ aliases' = resp.store
                  /\ cli' = [cli EXCEPT !.pc = "off",
                               !.last = Outcome("rm", args, e, 1, AnswerOf(resp),
                                          IF e = "" THEN "successfully deleted alias."
                                          ELSE "")]
  /\ UNCHANGED <<nextID, users, proc, now, held, failed, http, faulty>>

\* opendydns-cli set-ip <ALIAS> <IP>
setIp ==
  /\ cli.pc = "ready"
  /\ \E args \in BOOLEAN, name \in AliasNames, ip \in Values, transport \in BOOLEAN :
       LET t == getToken
           resp == IF Reaches(transport)
                     THEN ServeAlias("PUT /aliases", t.token,
                                     [name EXCEPT !.value = ip])
                     ELSE NoResponse
           e == ClientUpdateAlias(resp)
       IN  IF ~args \/ t.err # ""
             THEN /\ cli' = [cli EXCEPT !.pc = "off",
                               !.last = Outcome("set-ip", args, IF ~args THEN "missing ALIAS IP"
                                                          ELSE t.err, 0, "", "")]
                  /\ UNCHANGED aliases
             ELSE /\ aliases' = resp.store
                  /\ cli' = [cli EXCEPT !.pc = "off",
                               !.last = Outcome("set-ip", args, e, 1, AnswerOf(resp),
                                          IF e = "" THEN "successfully deleted alias."
                                          ELSE "")]
  /\ UNCHANGED <<nextID, users, proc, now, held, failed, http, faulty>>

\* the user edits the config file between two runs ("please edit it
\* accordingly"): the token is taken out
editConfig ==
  /\ cli.pc = "off"
  /\ cli.file.exists /\ cli.file.conf.token # NoToken
  /\ cli' = [cli EXCEPT !.file.conf.token = NoToken]
  /\ UNCHANGED <<aliases, nextID, users, proc, now, held, failed, http, faulty>>

NextCLI ==
  \/ Tick
  \/ editConfig
  \/ before
  \/ login
  \/ ls
  \/ add
  \/ rm
  \/ setIp

SpecCLI == Init /\ [][NextCLI]_vars

\* ================================================================ claims
\* an alias with this (host, domain) is in the table
PairExists(host, domain) ==
  \E a \in aliases : a.host = host /\ a.domain = domain

\* in this step slot p's handler took a request of kind op up to its lookup
Begins(p, op) ==
  proc[p].pc = "idle" /\ proc'[p].pc # "idle" /\ proc'[p].op = op

\* in this step slot p's pending call of kind op made its Store write
Writes(p, op) ==
  proc[p].pc = "write" /\ proc[p].op = op /\ proc'[p].pc = "done"

\* C1: among the Register calls that run concurrently for one (host, domain),
\* at most one succeeds: a Register never succeeds with its insert while an
\* alias for the pair is already in the Store (that call is one of "the
\* others", which must fail with Conflict).
C1_AtMostOneRegisterSucceeds ==
  [][\A p \in Procs :
       (Writes(p, "register") /\ proc'[p].res = "ok")
         => ~PairExists(proc[p].host, proc[p].domain)]_vars

\* C2: in every reachable state no two aliases of the Store have the same
\* (host, domain).
C2_HostDomainUnique ==
  \A a, b \in aliases : (a.host = b.host /\ a.domain = b.domain) => a = b

\* C4: a Delete of a (host, domain) whose alias (the one the Store finds for
\* the pair) is another user's answers Forbidden and leaves the Store as it
\* was; and no Store write of a Delete removes or changes an alias of another
\* user.
C4_DeleteByNonOwnerForbidden ==
  [][\A p \in Procs :
       /\ (/\ Begins(p, "delete")
           /\ PairExists(proc'[p].host, proc'[p].domain)
           /\ FindAlias(proc'[p].host, proc'[p].domain).userID # proc'[p].user)
            => (/\ proc'[p].pc = "done"
                /\ proc'[p].res = "Forbidden"
                /\ aliases' = aliases)
       /\ Writes(p, "delete")
            => \A a \in aliases : a.userID # proc[p].user => a \in aliases']_vars

\* C4 witness: user 2 was answered Forbidden for the delete of an alias that
\* user 1 owns, and the alias is still there.
C4_Witness ==
  \E p \in Procs :
    /\ proc[p].pc = "done" /\ proc[p].op = "delete" /\ proc[p].res = "Forbidden"
    /\ proc[p].user = 2
    /\ \E a \in aliases :
         a.host = proc[p].host /\ a.domain = proc[p].domain /\ a.userID = 1

\* C5: an Update of a (host, domain) whose alias (the one the Store finds for
\* the pair) is another user's answers Forbidden and leaves the Store as it
\* was; and the Store write of an Update, which carries no owner predicate,
\* never changes an alias of another user (nor adds or removes a row).
C5_UpdateByNonOwnerForbidden ==
  [][\A p \in Procs :
       /\ (/\ Begins(p, "update")
           /\ proc'[p].host # ""
           /\ PairExists(proc'[p].host, proc'[p].domain)
           /\ FindAlias(proc'[p].host, proc'[p].domain).userID # proc'[p].user)
            => (/\ proc'[p].pc = "done"
                /\ proc'[p].res = "Forbidden"
                /\ aliases' = aliases)
       /\ Writes(p, "update")
            => /\ \A a \in aliases : a.userID # proc[p].user => a \in aliases'
               /\ {a.id : a \in aliases'} = {a.id : a \in aliases}]_vars

\* C5 witness: user 1 was answered Forbidden for the update of an alias that
\* user 2 owns, and the alias is still there.
C5_Witness ==
  \E p \in Procs :
    /\ proc[p].pc = "done" /\ proc[p].op = "update" /\ proc[p].res = "Forbidden"
    /\ proc[p].user = 1
    /\ \E a \in aliases :
         a.host = proc[p].host /\ a.domain = proc[p].domain /\ a.userID = 2

\* C6: when a Register succeeds, the caller's list (FindUserAliases) holds
\* the new alias; and a Register of a (host, domain) that is in the Store,
\* by any user, answers Conflict and leaves the Store as it was.
C6_RegisterThenConflict ==
  [][\A p \in Procs :
       /\ (Writes(p, "register") /\ proc'[p].res = "ok")
            => \E a \in FindUserAliases(proc[p].user)' :
                 /\ a.host = proc[p].host /\ a.domain = proc[p].domain
                 /\ a.value = proc[p].value
                 /\ a \notin aliases
       /\ (/\ Begins(p, "register")
           /\ proc'[p].host # ""
           /\ PairExists(proc'[p].host, proc'[p].domain))
            => (/\ proc'[p].pc = "done"
                /\ proc'[p].res = "Conflict"
                /\ aliases' = aliases
                /\ nextID' = nextID)]_vars

\* C6 witness: user 1 holds the alias in its list and user 2 was answered
\* Conflict for the same (host, domain).
C6_Witness ==
  \E p \in Procs :
    /\ proc[p].pc = "done" /\ proc[p].op = "register" /\ proc[p].res = "Conflict"
    /\ proc[p].user = 2
    /\ \E a \in FindUserAliases(1) :
         a.host = proc[p].host /\ a.domain = proc[p].domain

\* C7: a Delete by the owner succeeds by removing the caller's alias of the
\* (host, domain) from the caller's list, touching no other alias; and after
\* a Delete of user A has succeeded, a later Delete by A of the same (host,
\* domain), no alias of the pair having been registered since, answers
\* NotFound; so does a Delete of a pair that was never registered.
C7_DeleteRemovesThenNotFound ==
  [][\A p \in Procs :
       /\ Writes(p, "delete")
            => /\ proc'[p].res = "ok"
               /\ ~\E a \in FindUserAliases(proc[p].user)' :
                     a.host = proc[p].host /\ a.domain = proc[p].domain
               /\ \A a \in aliases :
                    ~(a.host = proc[p].host /\ a.domain = proc[p].domain
                      /\ a.userID = proc[p].user) => a \in aliases'
       /\ (Begins(p, "delete") /\ nextID = 1) => proc'[p].res = "NotFound"
       /\ \A q \in Procs \ {p} :
            (/\ Begins(p, "delete")
             /\ proc[q].pc = "done" /\ proc[q].op = "delete" /\ proc[q].res = "ok"
             /\ proc'[p].user = proc[q].user
             /\ proc'[p].host = proc[q].host /\ proc'[p].domain = proc[q].domain
             /\ \A a \in aliases :
                  (a.host = proc[q].host /\ a.domain = proc[q].domain)
                    => a.id < proc[q].rec)
              => proc'[p].res = "NotFound"]_vars

\* C11: the list a List request answers is exactly the aliases of the Store
\* whose owner is the caller; and the lists follow the registrations and
\* deletions: a Register that succeeds adds its alias to the caller's list
\* and to no other user's, a Delete takes the caller's alias of the (host,
\* domain) out of the caller's list and changes no other user's list, and an
\* Update moves no alias from one list to another.
C11_ListIsOwnersAliases ==
  [][\A p \in Procs :
       /\ Begins(p, "list")
            => /\ \A a \in proc'[p].list : a \in aliases /\ a.userID = proc'[p].user
               /\ \A a \in aliases : a.userID = proc'[p].user => a \in proc'[p].list
       /\ (Writes(p, "register") /\ proc'[p].res = "ok")
            => /\ \E a \in FindUserAliases(proc[p].user)' :
                    /\ a.host = proc[p].host /\ a.domain = proc[p].domain
                    /\ a.value = proc[p].value
                    /\ FindUserAliases(proc[p].user)'
                         = FindUserAliases(proc[p].user) \cup {a}
               /\ \A u \in UserIDs \ {proc[p].user} :
                    FindUserAliases(u)' = FindUserAliases(u)
       /\ Writes(p, "delete")
            => /\ FindUserAliases(proc[p].user)'
                    = {a \in FindUserAliases(proc[p].user) :
                         ~(a.host = proc[p].host /\ a.domain = proc[p].domain)}
               /\ \A u \in UserIDs \ {proc[p].user} :
                    FindUserAliases(u)' = FindUserAliases(u)
       /\ Writes(p, "update")
            => \A u \in UserIDs :
                 {a.id : a \in FindUserAliases(u)'} = {a.id : a \in FindUserAliases(u)}]_vars

\* C11 witness: both users hold an alias, and a List of user 1 answered
\* user 1's alias and not user 2's.
C11_Witness ==
  \E p \in Procs :
    /\ proc[p].pc = "done" /\ proc[p].op = "list" /\ proc[p].user = 1
    /\ proc[p].list # {}
    /\ \A a \in proc[p].list : a.userID = 1
    /\ \E a \in aliases : a.userID = 2
    /\ proc[p].list = {a \in aliases : a.userID = 1}

\* C12: the Store write of an Update that succeeds changes only the value
\* (and the domain) of the alias it looked up: that alias keeps its
\* identifier, owner and host and takes the new value, no alias is created
\* or removed, and every other alias is the same after as before.
C12_UpdateChangesOnlyValue ==
  [][\A p \in Procs :
       (Writes(p, "update") /\ proc'[p].res = "ok")
         => /\ nextID' = nextID
            /\ Cardinality(aliases') = Cardinality(aliases)
            /\ \A a \in aliases :
                 IF a.id = proc[p].rec
                   THEN \E b \in aliases' :
                          /\ b.id = a.id /\ b.userID = a.userID /\ b.host = a.host
                          /\ b.domain = proc[p].domain
                          /\ b.value = proc[p].value
                   ELSE a \in aliases']_vars

\* C12 witness: an Update has succeeded and its alias now has the new value,
\* next to an alias of another (host, domain) that still has its own value.
C12_Witness ==
  \E p \in Procs :
    /\ proc[p].pc = "done" /\ proc[p].op = "update" /\ proc[p].res = "ok"
    /\ \E a, b \in aliases :
         /\ a.host = proc[p].host /\ a.domain = proc[p].domain
         /\ a.value = "5.6.7.8"
         /\ b.domain # a.domain /\ b.value = "1.2.3.4"

\* C14: an Update of a (host, domain) that no alias of the Store has answers
\* NotFound and creates nothing, whether the pair is missing at the Update's
\* lookup or at its write (the alias looked up was deleted in between): it
\* never answers ok.
C14_UpdateOfMissingIsNotFound ==
  [][\A p \in Procs :
       /\ (/\ Begins(p, "update")
           /\ proc'[p].host # ""
           /\ ~PairExists(proc'[p].host, proc'[p].domain))
            => (/\ proc'[p].pc = "done"
                /\ proc'[p].res = "NotFound"
                /\ aliases' = aliases /\ nextID' = nextID)
       /\ (/\ Writes(p, "update")
           /\ ~PairExists(proc[p].host, proc[p].domain))
            => (/\ proc'[p].res = "NotFound"
                /\ aliases' = aliases /\ nextID' = nextID)]_vars

\* C15: no retry. A request calls its daemon operation at most once and no
\* statement of the Store is issued twice for it; when a statement fails the
\* request is answered Internal in that very step, with the Store as it was
\* before the statement, and an answered request issues nothing more.
C15_NoRetry ==
  [][\A p \in Procs :
       /\ proc'[p].calls <= 1
       /\ \A i, j \in 1..Len(proc'[p].stmts) :
            proc'[p].stmts[i] = proc'[p].stmts[j] => i = j
       /\ (proc[p].pc # "done" /\ proc'[p].res = "Internal")
            => (/\ proc'[p].pc = "done"
                /\ Len(proc'[p].stmts) = Len(proc[p].stmts) + 1
                /\ aliases' = aliases /\ nextID' = nextID)
       /\ proc[p].pc = "done" => proc'[p] \in {proc[p], Idle}
       /\ (proc[p].pc = "write" /\ proc'[p] # proc[p])
            => (proc'[p].pc = "done" /\ proc'[p].calls = proc[p].calls)]_vars

\* C15 witness: a Register whose lookup succeeded and whose insert failed
\* was answered Internal after exactly these two statements, in one call,
\* and no alias was created.
C15_Witness ==
  \E p \in Procs :
    /\ proc[p].pc = "done" /\ proc[p].op = "register" /\ proc[p].res = "Internal"
    /\ proc[p].stmts = <<"FindAlias", "CreateAlias">>
    /\ proc[p].calls = 1
    /\ ~PairExists(proc[p].host, proc[p].domain)

\* the header carries a bearer token signed with the daemon's key over its
\* own claims and not past its expiry
ValidBearer(header) ==
  /\ header.scheme = "Bearer"
  /\ header.token.raw = "jwt"
  /\ header.token.sig = Sign(SigningKey, header.token)
  /\ now <= header.token.exp

\* the identities of the users table
Identities == {[id |-> u.id, email |-> u.email] : u \in users}

\* the credentials are those of a user
CorrectCredentials(cred) ==
  \E u \in users : u.email = cred.email /\ u.password = Hash(cred.password)

\* in this step a request was received and answered
Served == http = NoExchange /\ http' # NoExchange

\* C3: a request to any route but POST /sessions whose header carries no
\* valid bearer token (absent, another scheme, unparsable, badly signed,
\* expired) is answered Unauthorized and leaves the Store as it was; a
\* request to such a route that is not answered Unauthorized ran as the
\* user its token names; and the Store changes only in a request with a
\* valid token.
C3_NoAliasOperationWithoutIdentity ==
  [][Served =>
       /\ (http'.route # "POST /sessions" /\ ~ValidBearer(http'.header))
            => (/\ http'.res = "Unauthorized"
                /\ http'.user = NoIdentity
                /\ aliases' = aliases /\ nextID' = nextID /\ users' = users)
       /\ (http'.route # "POST /sessions" /\ http'.res # "Unauthorized")
            => (/\ http'.user \in Identities
                /\ http'.user.id = http'.header.token.sub)
       /\ (aliases' # aliases \/ nextID' # nextID)
            => (ValidBearer(http'.header) /\ http'.route # "POST /sessions")]_vars

\* C3 witness: a DELETE with the token of the alias's owner, expired, was
\* answered Unauthorized and the alias is still there.
C3_Witness ==
  /\ http.route = "DELETE /aliases/:name"
  /\ http.res = "Unauthorized" /\ http.diag = "Expired"
  /\ held # NoSession /\ http.header = Bearer(held.token)
  /\ \E a \in aliases :
       /\ a.userID = held.identity.id
       /\ a.host = http.body.host /\ a.domain = http.body.domain

C9_ValidateIffSignedAndFresh ==
  (/\ http # NoExchange
   /\ http.route # "POST /sessions"
   /\ http.header.scheme = "Bearer"
   /\ http.header.token.raw = "jwt")
    => LET t == http.header.token
           signed == t.sig = Sign(SigningKey, t)
       IN  /\ (http.res # "Unauthorized") <=> (signed /\ now <= t.exp)
           /\ ~signed => (http.res = "Unauthorized" /\ http.diag = "InvalidSignature")
           /\ (signed /\ now > t.exp)
                => (http.res = "Unauthorized" /\ http.diag = "Expired")

\* C9 witness: the token of the last login, presented after its expiry
\* instant, failed Expired.
C9_Witness ==
  /\ http.route = "GET /domains"
  /\ held # NoSession /\ http.header = Bearer(held.token)
  /\ now = held.at + TokenTTL + 1
  /\ http.res = "Unauthorized" /\ http.diag = "Expired"

\* C10: a login changes neither the users nor the aliases; one that fails
\* issues no token and leaves the client's token as it was; with a user's
\* email and a wrong password it answers InvalidCredentials, however many
\* logins failed before; with a user's credentials it answers with a token
\* for that user, however many logins failed before.
C10_AuthenticateKeepsNoState ==
  [][(Served /\ http'.route = "POST /sessions") =>
       /\ aliases' = aliases /\ nextID' = nextID /\ users' = users
       /\ (http'.body.bound /\ ~CorrectCredentials(http'.body))
            => (/\ http'.res # "ok"
                /\ http'.token = NoToken
                /\ held' = held)
       /\ (/\ http'.body.bound /\ ~CorrectCredentials(http'.body)
           /\ \E u \in users : u.email = http'.body.email)
            => http'.res = "InvalidCredentials"
       /\ (http'.body.bound /\ CorrectCredentials(http'.body))
            => (/\ http'.res = "ok"
                /\ http'.token # NoToken
                /\ held'.token = http'.token
                /\ held'.identity.email = http'.body.email)]_vars

\* C10 witness: a login with the right password succeeded right after
\* MaxFailed (three) consecutive failed logins.
C10_Witness ==
  /\ http.route = "POST /sessions"
  /\ http.res = "ok"
  /\ http.prior >= 3
  /\ failed = 0

Answer(x) == [status |-> x.status, res |-> x.res, token |-> x.token]

CommandRan(cmd) == cli.pc = "ready" /\ cli'.pc = "off" /\ cli'.last.cmd = cmd

\* C17: rm returns nil and logs "successfully deleted alias." only when the
\* daemon accepted the DELETE: when the daemon answered with an error body
\* or the request failed in transport, rm returns an error; and login, ls
\* and add return an error when the daemon answered with an error body.
C17_RmFailsWhenDeleteFails ==
  [][/\ (CommandRan("rm") /\ cli'.last.sent = 1)
          => /\ (cli'.last.err = "" \/ cli'.last.msg = "successfully deleted alias.")
                  => cli'.last.answer = "ok"
             /\ cli'.last.answer # "ok" => cli'.last.err # ""
     /\ \A cmd \in {"login", "ls", "add"} :
          (CommandRan(cmd) /\ cli'.last.sent = 1 /\ cli'.last.answer \notin {"ok", "none"})
            => cli'.last.err # ""]_vars

\* C18: a login that returns nil has stored a token: after it conf.Token is
\* not empty, in memory and in the file, and the daemon had answered with a
\* token; a login whose request failed in transport returns an error and
\* leaves the stored token as it was.
C18_LoginStoresAToken ==
  [][CommandRan("login") =>
       /\ cli'.last.err = ""
            => (/\ cli'.conf.token # NoToken
                /\ cli'.file.conf.token # NoToken
                /\ cli'.last.answer = "ok")
       /\ (cli'.last.sent = 1 /\ cli'.last.answer = "none")
            => (/\ cli'.last.err # ""
                /\ cli'.file = cli.file
                /\ cli'.conf.token = cli.conf.token)]_vars

\* C20: whenever before has returned without error, also in the run that
\* created the default config file, the configuration in memory is the
\* content of the file at the --config path and confPath is that path.
C20_BeforeLoadsTheConfig ==
  cli.pc = "ready"
    => (/\ cli.file.exists
        /\ cli.conf = cli.file.conf
        /\ cli.confPath = ConfigPath)

\* a command of the CLI ran in this step
RanCommand == cli.pc = "ready" /\ cli'.pc = "off"

\* C19 as stated: with conf.Token empty, ls, add, rm and set-ip fail with
\* "not logged in" and send no request; with conf.Token not empty, login
\* fails with "already logged in" and sends no request; and conf.Token is
\* changed by no command but a login that succeeds.
C19_TokenGatesEveryCall ==
  [][RanCommand =>
       /\ (cli'.last.cmd \in {"ls", "add", "rm", "set-ip"} /\ cli.conf.token = NoToken)
            => (cli'.last.err = "not logged in" /\ cli'.last.sent = 0)
       /\ (cli'.last.cmd = "login" /\ cli.conf.token # NoToken)
            => (cli'.last.err = "already logged in" /\ cli'.last.sent = 0)
       /\ cli'.conf.token # cli.conf.token
            => (cli'.last.cmd = "login" /\ cli'.last.err = "")]_vars

\* C19 amended: with conf.Token empty, ls, add, rm and set-ip send no request
\* and fail, with "not logged in" when they were given their arguments and
\* with "missing ALIAS" / "missing ALIAS IP" when not; with conf.Token not
\* empty, login sends no request and fails, with "already logged in" when it
\* was given its argument and with "missing EMAIL" when not; and no command
\* but login changes conf.Token, the stored one changing only in a login
\* that succeeds.
C19_TokenGatesEveryCallGivenArguments ==
  [][RanCommand =>
       /\ (cli'.last.cmd \in {"ls", "add", "rm", "set-ip"} /\ cli.conf.token = NoToken)
            => (/\ cli'.last.sent = 0
                /\ aliases' = aliases
                /\ cli'.last.err =
                     (IF cli'.last.args THEN "not logged in"
                      ELSE IF cli'.last.cmd = "set-ip" THEN "missing ALIAS IP"
                      ELSE "missing ALIAS"))
       /\ (cli'.last.cmd = "login" /\ cli.conf.token # NoToken)
            => (/\ cli'.last.sent = 0
                /\ cli'.last.err = (IF cli'.last.args THEN "already logged in"
                                    ELSE "missing EMAIL"))
       /\ cli'.conf.token # cli.conf.token
            => (cli'.last.cmd = "login" /\ cli'.last.sent = 1)
       /\ cli'.file.conf.token # cli.file.conf.token
            => (cli'.last.cmd = "login" /\ cli'.last.err = "")]_vars

\* C19 witness: with a token stored, a login given its argument was refused
\* with "already logged in" without a request, the token still stored.
C19_Witness ==
  /\ cli.pc = "off"
  /\ cli.last.cmd = "login" /\ cli.last.args
  /\ cli.last.err = "already logged in" /\ cli.last.sent = 0
  /\ cli.conf.token # NoToken /\ cli.file.conf.token = cli.conf.token

====
